---------------------------- MODULE Spec2Model ----------------------------
(***************************************************************************)
(* A model of roles/openshift_certificate_expiry/library/                  *)
(* openshift_cert_expiry.py: one run of main() on one host.                *)
(*                                                                         *)
(* Time is counted in ticks, TicksPerDay ticks to the day, so that a       *)
(* timedelta is an integer number of ticks and timedelta.days is its floor *)
(* division by TicksPerDay.  A path is a pair <<directory, file name>>.    *)
(* A certificate payload is what a file, a kubeconfig field or a secret    *)
(* field holds: PEM text, base64 of PEM text, or something that is neither.*)
(* The host's two platform config files and the oc command are fixed for   *)
(* the run; every other file is looked at once, and what the run finds     *)
(* there is chosen when it looks.  Config files that exist are well formed.*)
(* A host carries at most MaxCerts certificates beside those its platform  *)
(* config files name.  The parameter show_all is read by the report alone  *)
(* (the echo of the parameters in check_results['meta'] is left out), and  *)
(* its value is chosen there.                                              *)
(*                                                                         *)
(* Spec is the whole run.  EtcdSpec is the external etcd section of main   *)
(* on a host whose etcd.conf is fixed from the start, ReaderSpec the       *)
(* FakeSecHead wrapper under any sequence of readline calls.               *)
(***************************************************************************)
EXTENDS Integers, Sequences, FiniteSets

(***************************************************************************)
(* Bounds of the model.                                                    *)
(***************************************************************************)
TicksPerDay == 2
MaxNow == 1
MaxNotAfterIdx == 2
MaxWarningDays == 1
MaxCerts == 2
MaxLines == 3
MaxReads == 5

\* datetime.datetime.now(): the instants the run may start at
Nows == 0..MaxNow
\* the notAfter instants of the certificates a host may carry
NotAfters == {(2 * k) - 1 : k \in 0..MaxNotAfterIdx}
\* the values of the int parameter warning_days (nothing rejects a negative one)
WarningDays == -1..MaxWarningDays

(***************************************************************************)
(* The host.                                                               *)
(***************************************************************************)
openshift_master_config_path == <<"master", "master-config.yaml">>
openshift_node_config_path == <<"node", "node-config.yaml">>

master_kube_configs ==
    <<"admin", "openshift-master", "openshift-node", "openshift-router",
      "openshift-registry">>

kubeconfig_paths ==
    [i \in 1..Len(master_kube_configs) |-> <<"master", master_kube_configs[i]>>]

etcd_cert_params ==
    <<"ETCD_CA_FILE", "ETCD_CERT_FILE", "ETCD_PEER_CA_FILE", "ETCD_PEER_CERT_FILE">>

\* os.path.dirname and os.path.join on the paths of the model
dirname(p) == p[1]
path_join(dir, name) == <<dir, name>>

\* What a well-formed config file names (relative to its own directory)
ServingInfo(cfg_path) ==
    IF cfg_path = openshift_master_config_path
    THEN [certFile |-> "master.server.crt", clientCA |-> "ca.crt"]
    ELSE [certFile |-> "server.crt", clientCA |-> "ca.crt"]

masterKubeConfig == "system:node.kubeconfig"
embeddedEtcdCertFile == "etcd.server.crt"

\* The paths an etcd.conf may name
EtcdPaths == {<<"etcd", "ca.crt">>, <<"etcd", "server.crt">>}

\* Certificate payloads
Pem(e) == [kind |-> "pem", notAfter |-> e]
B64(e) == [kind |-> "b64", notAfter |-> e]
Garbage == [kind |-> "garbage", notAfter |-> 0]
Payloads == {Pem(e) : e \in NotAfters} \cup {B64(e) : e \in NotAfters} \cup {Garbage}

GroupNames == {"ocp_certs", "kubeconfigs", "etcd", "router", "registry"}

\* The lines a file wrapped by FakeSecHead may hold, and the files themselves
Lines == {"ETCD_CA_FILE=/etc/etcd/ca.crt\n", "# comment\n", "\n"}
Files == UNION {[1..n -> Lines] : n \in 0..MaxLines}
None == "None"

VARIABLES
    pc,                  \* the place main() has reached
    error,               \* the exception that ended the run and the place it
                         \* was raised at, NoError otherwise
    warning_days,        \* module.params['warning_days']
    show_all,            \* module.params['show_all'] as the report reads it
                         \* (FALSE until then)
    check_mode,          \* module.check_mode
    master_exists,       \* the host has master/master-config.yaml
    node_exists,         \* the host has node/node-config.yaml
    oc,                  \* the oc command on the host: "untried" until the first
                         \* Popen, then "present" or "absent"
    now,                 \* main's now
    ocp_todo,            \* config files the first loop has still to open
    cert_todo,           \* cert paths of the open config file still to read
    kube_todo,           \* index of the next well-known kubeconfig
    etcd_conf,           \* /etc/etcd/etcd.conf on the host when that is fixed for
                         \* the run, Unseen when it is chosen as the run opens it
    etcd_certs_to_check, \* main's set of the same name
    etcd_todo,           \* the paths of that set the loop has still to visit
    ocp_certs,           \* the five accumulating lists
    kubeconfigs,
    etcd_certs,
    router_certs,
    registry_certs,
    cmds,                \* the external commands started so far
    check_results,       \* what exit_json returns
    summary,
    msg,
    fp,                  \* FakeSecHead's self.fp: the lines of the wrapped file and
                         \* the number of them read so far
    sechead,             \* FakeSecHead's self.sechead
    returned             \* what the calls of readline returned, in order

vars == <<pc, error, warning_days, show_all, check_mode, master_exists,
          node_exists, oc, now, ocp_todo, cert_todo, kube_todo, etcd_conf,
          etcd_certs_to_check, etcd_todo, ocp_certs, kubeconfigs, etcd_certs,
          router_certs, registry_certs, cmds, check_results, summary, msg, fp, sechead,
          returned>>

reader == <<fp, sechead, returned>>
host == <<warning_days, check_mode, master_exists, node_exists>>
lists == <<ocp_certs, kubeconfigs, etcd_certs, router_certs, registry_certs>>
outcome == <<check_results, summary, msg>>


(***************************************************************************)
(* The pure functions of the module.                                       *)
(***************************************************************************)
\* str(datetime): the display string of an instant
str(e) == <<"str", e>>

\* cert_string.decode('base-64'): base64 of PEM text gives the PEM text back,
\* anything else gives bytes that are no certificate
b64decode(c) == IF c.kind = "b64" THEN Pem(c.notAfter) ELSE Garbage

\* load_and_handle_cert: raises (ok = FALSE) when the payload is no PEM
\* certificate, else returns the expiry date and the time remaining
load_and_handle_cert(cert_string, n, base64decode) ==
    LET _cert_string == IF base64decode THEN b64decode(cert_string) ELSE cert_string
    IN  IF _cert_string.kind = "pem"
        THEN [ok |-> TRUE,
              cert_expiry_date |-> _cert_string.notAfter,
              time_remaining |-> _cert_string.notAfter - n]
        ELSE [ok |-> FALSE, cert_expiry_date |-> 0, time_remaining |-> 0]

\* a day count rounded toward zero
days_toward_zero(delta) ==
    IF delta >= 0 THEN delta \div TicksPerDay ELSE -((-delta) \div TicksPerDay)

\* timedelta.days
days(delta) == delta \div TicksPerDay

\* datetime.timedelta(days=warning_days)
expire_window == warning_days * TicksPerDay

\* the dict built before every call of classify_cert
expire_check_result(path, loaded) ==
    [path |-> path,
     expiry |-> loaded.cert_expiry_date,
     days_remaining |-> days(loaded.time_remaining),
     health |-> "None"]

\* classify_cert with the warning test made before the expired test
classify_cert_warning_first(cert_meta, n, time_remaining, window, cert_list) ==
    LET health == IF time_remaining < window THEN "warning"
                  ELSE IF cert_meta.expiry < n THEN "expired"
                  ELSE "ok"
    IN  Append(cert_list,
               [cert_meta EXCEPT !.health = health, !.expiry = str(cert_meta.expiry)])

\* classify_cert with a warning window that includes its far end
classify_cert_inclusive(cert_meta, n, time_remaining, window, cert_list) ==
    LET health == IF cert_meta.expiry < n THEN "expired"
                  ELSE IF time_remaining <= window THEN "warning"
                  ELSE "ok"
    IN  Append(cert_list,
               [cert_meta EXCEPT !.health = health, !.expiry = str(cert_meta.expiry)])

classify_cert(cert_meta, n, time_remaining, window, cert_list) ==
    LET health == IF cert_meta.expiry < n THEN "expired"
                  ELSE IF time_remaining < window THEN "warning"
                  ELSE "ok"
    IN  Append(cert_list,
               [cert_meta EXCEPT !.health = health, !.expiry = str(cert_meta.expiry)])

\* One examination: load_and_handle_cert, expire_check_result, classify_cert
examine(c, path, base64decode, cert_list) ==
    LET loaded == load_and_handle_cert(c, now, base64decode)
    IN  classify_cert(expire_check_result(path, loaded), now,
                      loaded.time_remaining, expire_window, cert_list)

CountHealth(items, h) == Len(SelectSeq(items, LAMBDA c : c.health = h))

\* tabulate_summary counting only the three lists its docstring names
tabulate_summary_three_lists(certificates, kcs, etcds, routers, registries) ==
    LET items == certificates \o kcs \o etcds
    IN  [system_certificates |-> Len(certificates),
         kubeconfig_certificates |-> Len(kcs),
         etcd_certificates |-> Len(etcds),
         router_certs |-> Len(routers),
         registry_certs |-> Len(registries),
         total |-> Len(items),
         ok |-> CountHealth(items, "ok"),
         warning |-> CountHealth(items, "warning"),
         expired |-> CountHealth(items, "expired")]

tabulate_summary(certificates, kcs, etcds, routers, registries) ==
    LET items == certificates \o kcs \o etcds \o routers \o registries
    IN  [system_certificates |-> Len(certificates),
         kubeconfig_certificates |-> Len(kcs),
         etcd_certificates |-> Len(etcds),
         router_certs |-> Len(routers),
         registry_certs |-> Len(registries),
         total |-> Len(items),
         ok |-> CountHealth(items, "ok"),
         warning |-> CountHealth(items, "warning"),
         expired |-> CountHealth(items, "expired")]

\* the one-line message
Message(count, exp, warn, ok, window) ==
    [count |-> count, exp |-> exp, warn |-> warn, ok |-> ok, window |-> window]

\* the filter keeping the expired records only
flagged_expired_only(certs) == SelectSeq(certs, LAMBDA crt : crt.health \in {"expired"})

\* [crt for crt in certs if crt['health'] in ['expired', 'warning']]
flagged(certs) == SelectSeq(certs, LAMBDA crt : crt.health \in {"expired", "warning"})

cert_key(item) == item.days_remaining

\* a sort that places an item before the items of equal key
RECURSIVE sorted_unstable(_)
sorted_unstable(certs) ==
    IF certs = <<>> THEN <<>>
    ELSE LET n == Len(certs)
             init == sorted_unstable(SubSeq(certs, 1, n - 1))
             x == certs[n]
             keep == SelectSeq(init, LAMBDA y : cert_key(y) < cert_key(x))
             rest == SelectSeq(init, LAMBDA y : cert_key(y) >= cert_key(x))
         IN  keep \o <<x>> \o rest

\* sorted(certs, key=cert_key): a stable sort, each item placed after the
\* items already placed whose key is not larger
RECURSIVE sorted(_)
sorted(certs) ==
    IF certs = <<>> THEN <<>>
    ELSE LET n == Len(certs)
             init == sorted(SubSeq(certs, 1, n - 1))
             x == certs[n]
             keep == SelectSeq(init, LAMBDA y : cert_key(y) <= cert_key(x))
             rest == SelectSeq(init, LAMBDA y : cert_key(y) > cert_key(x))
         IN  keep \o <<x>> \o rest

\* what main puts in check_results for the five groups when show_all is all
results(all) ==
    LET pick(certs) == IF all THEN certs ELSE flagged(certs)
    IN  [ocp_certs |-> sorted(pick(ocp_certs)),
         kubeconfigs |-> sorted(pick(kubeconfigs)),
         etcd |-> sorted(pick(etcd_certs)),
         registry |-> pick(registry_certs),
         router |-> pick(router_certs)]

\* os.path.exists for the two platform config files
exists(p) ==
    \/ p = openshift_master_config_path /\ master_exists
    \/ p = openshift_node_config_path /\ node_exists

filter_paths(path_list) == SelectSeq(path_list, exists)

\* The number of certificates examined so far, and whether the host may
\* carry another optional certificate source
NCerts == Len(ocp_certs) + Len(kubeconfigs) + Len(etcd_certs)
          + Len(router_certs) + Len(registry_certs)
Room == NCerts < MaxCerts
Found == IF Room THEN BOOLEAN ELSE {FALSE}

(***************************************************************************)
(* The run.                                                                *)
(***************************************************************************)
NoError == [exc |-> "none", at |-> "none"]
Unseen == [seen |-> FALSE]

Init ==
    /\ pc = "start"
    /\ error = NoError
    /\ warning_days \in WarningDays
    /\ check_mode \in BOOLEAN
    /\ master_exists \in BOOLEAN
    /\ node_exists \in BOOLEAN
    /\ show_all = FALSE
    /\ oc = "untried"
    /\ now = 0
    /\ ocp_todo = <<>>
    /\ cert_todo = <<>>
    /\ kube_todo = 1
    /\ etcd_conf = Unseen
    /\ etcd_certs_to_check = {}
    /\ etcd_todo = {}
    /\ ocp_certs = <<>>
    /\ kubeconfigs = <<>>
    /\ etcd_certs = <<>>
    /\ router_certs = <<>>
    /\ registry_certs = <<>>
    /\ cmds = <<>>
    /\ check_results = <<>>
    /\ summary = <<>>
    /\ msg = <<>>
    /\ fp = [lines |-> <<>>, pos |-> 0]
    /\ sechead = None
    /\ returned = <<>>

\* An exception nothing catches ends the run: the process exits with a
\* traceback, its lists are gone and nothing is returned
Raise(exc) ==
    /\ pc' = "failed"
    /\ error' = [exc |-> exc, at |-> pc]
    /\ ocp_todo' = <<>>
    /\ cert_todo' = <<>>
    /\ kube_todo' = 1
    /\ etcd_certs_to_check' = {}
    /\ etcd_todo' = {}
    /\ ocp_certs' = <<>>
    /\ kubeconfigs' = <<>>
    /\ etcd_certs' = <<>>
    /\ router_certs' = <<>>
    /\ registry_certs' = <<>>
    /\ UNCHANGED <<host, reader, show_all, now, etcd_conf, outcome>>

\* main up to the first loop, with a check-mode branch that does not end the run
Start_check_mode_goes_on ==
    /\ pc = "start"
    /\ \E n \in Nows : now' = n
    /\ IF check_mode
       THEN /\ check_results' = [ocp_certs |-> <<>>]
            /\ msg' = Message(0, 0, 0, 0, warning_days)
            /\ ocp_todo' = filter_paths(filter_paths(
                               <<openshift_master_config_path, openshift_node_config_path>>))
            /\ pc' = "ocp"
       ELSE /\ ocp_todo' = filter_paths(filter_paths(
                               <<openshift_master_config_path, openshift_node_config_path>>))
            /\ pc' = "ocp"
            /\ UNCHANGED <<check_results, msg>>
    /\ UNCHANGED <<error, host, reader, show_all, oc, cert_todo, kube_todo, etcd_conf,
                   etcd_certs_to_check, etcd_todo, lists, cmds, summary>>

\* main up to the check-mode exit
Start ==
    /\ pc = "start"
    /\ \E n \in Nows : now' = n
    /\ IF check_mode
       THEN /\ check_results' = [ocp_certs |-> <<>>]
            /\ msg' = Message(0, 0, 0, 0, warning_days)
            /\ pc' = "done"
            /\ UNCHANGED ocp_todo
       ELSE /\ ocp_todo' = filter_paths(filter_paths(
                               <<openshift_master_config_path, openshift_node_config_path>>))
            /\ pc' = "ocp"
            /\ UNCHANGED <<check_results, msg>>
    /\ UNCHANGED <<error, host, reader, show_all, oc, cert_todo, kube_todo, etcd_conf,
                   etcd_certs_to_check, etcd_todo, lists, cmds, summary>>

\* the first loop opens the next config file and notes its two cert paths;
\* the order in which cert_meta.items() yields them is the interpreter's
OcpOpenConfig ==
    /\ pc = "ocp"
    /\ cert_todo = <<>>
    /\ ocp_todo # <<>>
    /\ LET os_cert == Head(ocp_todo)
           cfg_path == dirname(os_cert)
           certFile == path_join(cfg_path, ServingInfo(os_cert).certFile)
           clientCA == path_join(cfg_path, ServingInfo(os_cert).clientCA)
       IN  cert_todo' \in {<<certFile, clientCA>>, <<clientCA, certFile>>}
    /\ ocp_todo' = Tail(ocp_todo)
    /\ UNCHANGED <<pc, error, host, reader, show_all, oc, now, kube_todo, etcd_conf,
                   etcd_certs_to_check, etcd_todo, lists, cmds, outcome>>

\* the inner loop opens the next cert path (nothing checks that it exists)
\* and examines what it holds
OcpReadCert ==
    /\ pc = "ocp"
    /\ cert_todo # <<>>
    /\ \E found \in BOOLEAN :
          IF ~found
          THEN Raise("IOError")
          ELSE \E cert \in Payloads :
               IF ~load_and_handle_cert(cert, now, FALSE).ok
               THEN Raise("CertError")
               ELSE /\ ocp_certs' = examine(cert, Head(cert_todo), FALSE, ocp_certs)
                    /\ cert_todo' = Tail(cert_todo)
                    /\ UNCHANGED <<pc, error, host, reader, show_all, now, ocp_todo, kube_todo,
                                   etcd_conf, etcd_certs_to_check, etcd_todo, kubeconfigs, etcd_certs,
                                   router_certs, registry_certs, outcome>>
    /\ UNCHANGED <<oc, cmds>>

\* the first loop has run out of config files
OcpDone ==
    /\ pc = "ocp"
    /\ cert_todo = <<>>
    /\ ocp_todo = <<>>
    /\ pc' = "node_kube"
    /\ UNCHANGED <<error, host, reader, show_all, oc, now, ocp_todo, cert_todo, kube_todo,
                   etcd_conf, etcd_certs_to_check, etcd_todo, lists, cmds, outcome>>

\* the node's own kubeconfig: a missing node config or kubeconfig is an
\* IOError, which is caught; nothing else is
NodeKube ==
    /\ pc = "node_kube"
    /\ \E found \in Found :
          IF ~(node_exists /\ found)
          THEN /\ pc' = "kube"
               /\ UNCHANGED <<error, host, reader, show_all, now, ocp_todo, cert_todo, kube_todo,
                              etcd_conf, etcd_certs_to_check, etcd_todo, lists, outcome>>
          ELSE \E c \in Payloads :
               IF ~load_and_handle_cert(c, now, TRUE).ok
               THEN Raise("CertError")
               ELSE /\ kubeconfigs' =
                           examine(c, path_join(dirname(openshift_node_config_path),
                                                masterKubeConfig), TRUE, kubeconfigs)
                    /\ pc' = "kube"
                    /\ UNCHANGED <<error, host, reader, show_all, now, ocp_todo, cert_todo, kube_todo,
                                   etcd_conf, etcd_certs_to_check, etcd_todo, ocp_certs, etcd_certs,
                                   router_certs, registry_certs, outcome>>
    /\ UNCHANGED <<oc, cmds>>

\* one well-known kubeconfig: skipped when the file does not exist
KubeStep ==
    /\ pc = "kube"
    /\ kube_todo <= Len(kubeconfig_paths)
    /\ \E found \in Found :
          IF ~found
          THEN /\ kube_todo' = kube_todo + 1
               /\ UNCHANGED <<pc, error, host, reader, show_all, now, ocp_todo, cert_todo,
                              etcd_conf, etcd_certs_to_check, etcd_todo, lists, outcome>>
          ELSE \E c \in Payloads :
               IF ~load_and_handle_cert(c, now, TRUE).ok
               THEN Raise("CertError")
               ELSE /\ kubeconfigs' =
                           examine(c, kubeconfig_paths[kube_todo], TRUE, kubeconfigs)
                    /\ kube_todo' = kube_todo + 1
                    /\ UNCHANGED <<pc, error, host, reader, show_all, now, ocp_todo, cert_todo,
                                   etcd_conf, etcd_certs_to_check, etcd_todo, ocp_certs, etcd_certs,
                                   router_certs, registry_certs, outcome>>
    /\ UNCHANGED <<oc, cmds>>

KubeDone ==
    /\ pc = "kube"
    /\ kube_todo > Len(kubeconfig_paths)
    /\ pc' = "etcd_conf"
    /\ UNCHANGED <<error, host, reader, show_all, oc, now, ocp_todo, cert_todo, kube_todo,
                   etcd_conf, etcd_certs_to_check, etcd_todo, lists, cmds, outcome>>

\* What /etc/etcd/etcd.conf may hold: every probed key names a path or is absent
absent == <<>>
EtcdConfs == [{etcd_cert_params[i] : i \in 1..Len(etcd_cert_params)}
                 -> EtcdPaths \cup {absent}]

\* etcd_config.get('ETCD', param): the value, or NoOptionError
etcd_get(conf, param) ==
    IF param \in DOMAIN conf /\ conf[param] # absent
    THEN [exc |-> "none", value |-> conf[param]]
    ELSE [exc |-> "NoOptionError", value |-> absent]

\* a probing loop that ends at the first parameter the file does not have
probe_until_absent(conf) ==
    LET params == Append(etcd_cert_params, "dne")
        stop == CHOOSE j \in 1..Len(params) :
                    /\ etcd_get(conf, params[j]).exc # "none"
                    /\ \A k \in 1..(j - 1) : etcd_get(conf, params[k]).exc = "none"
    IN  {etcd_get(conf, params[i]).value : i \in 1..(stop - 1)}

\* the probing loop over etcd_cert_params with 'dne' appended
probe(conf) ==
    LET params == Append(etcd_cert_params, "dne")
    IN  {etcd_get(conf, params[i]).value :
            i \in {j \in 1..Len(params) : etcd_get(conf, params[j]).exc = "none"}}

\* /etc/etcd/etcd.conf as a run may find it: no file, or a file with its keys
NoEtcdConf ==
    [exists |-> FALSE,
     conf |-> [k \in {etcd_cert_params[i] : i \in 1..Len(etcd_cert_params)} |-> absent]]
EtcdConfFiles == {NoEtcdConf} \cup {[exists |-> TRUE, conf |-> c] : c \in EtcdConfs}

\* the external etcd: a missing etcd.conf is an IOError, which is caught
EtcdConf ==
    /\ pc = "etcd_conf"
    /\ \E file \in (IF etcd_conf = Unseen THEN EtcdConfFiles ELSE {etcd_conf}) :
          /\ file.exists \in Found
          /\ IF ~file.exists
             THEN etcd_certs_to_check' = {}
             ELSE etcd_certs_to_check' = probe(file.conf)
    /\ etcd_todo' = etcd_certs_to_check'
    /\ pc' = "etcd_files"
    /\ UNCHANGED <<error, host, reader, show_all, oc, now, ocp_todo, cert_todo, kube_todo,
                   etcd_conf, lists, cmds, outcome>>

\* one path of the set: dropped by filter_paths when it does not exist
EtcdCert ==
    /\ pc = "etcd_files"
    /\ \E etcd_cert \in etcd_todo, found \in Found :
          IF ~found
          THEN /\ etcd_todo' = etcd_todo \ {etcd_cert}
               /\ UNCHANGED <<pc, error, host, reader, show_all, now, ocp_todo, cert_todo,
                              kube_todo, etcd_conf, etcd_certs_to_check, lists, outcome>>
          ELSE \E c \in Payloads :
               IF ~load_and_handle_cert(c, now, FALSE).ok
               THEN Raise("CertError")
               ELSE /\ etcd_certs' = examine(c, etcd_cert, FALSE, etcd_certs)
                    /\ etcd_todo' = etcd_todo \ {etcd_cert}
                    /\ UNCHANGED <<pc, error, host, reader, show_all, now, ocp_todo, cert_todo,
                                   kube_todo, etcd_conf, etcd_certs_to_check, ocp_certs, kubeconfigs,
                                   router_certs, registry_certs, outcome>>
    /\ UNCHANGED <<oc, cmds>>

EtcdCertsDone ==
    /\ pc = "etcd_files"
    /\ etcd_todo = {}
    /\ pc' = "etcd_embedded"
    /\ UNCHANGED <<error, host, reader, show_all, oc, now, ocp_todo, cert_todo, kube_todo,
                   etcd_conf, etcd_certs_to_check, etcd_todo, lists, cmds, outcome>>

\* the embedded etcd: the master config may name etcdConfig.servingInfo.certFile;
\* the file it names is opened without a check that it exists
EtcdEmbedded ==
    /\ pc = "etcd_embedded"
    /\ \E embedded \in Found, found \in BOOLEAN :
          IF ~(master_exists /\ embedded)
          THEN /\ pc' = "router"
               /\ UNCHANGED <<error, host, reader, show_all, now, ocp_todo, cert_todo, kube_todo,
                              etcd_conf, etcd_certs_to_check, etcd_todo, lists, outcome>>
          ELSE IF ~found
          THEN Raise("IOError")
          ELSE \E c \in Payloads :
               IF ~load_and_handle_cert(c, now, FALSE).ok
               THEN Raise("CertError")
               ELSE /\ etcd_certs' =
                           examine(c, path_join(dirname(openshift_master_config_path),
                                                embeddedEtcdCertFile), FALSE, etcd_certs)
                    /\ pc' = "router"
                    /\ UNCHANGED <<error, host, reader, show_all, now, ocp_todo, cert_todo, kube_todo,
                                   etcd_conf, etcd_certs_to_check, etcd_todo, ocp_certs, kubeconfigs,
                                   router_certs, registry_certs, outcome>>
    /\ UNCHANGED <<oc, cmds>>

\* What the oc command may print on its standard output (its exit status is
\* never read): nothing, text that loads as a YAML string, text that is no
\* YAML, or a mapping that has or lacks the data field and metadata.selfLink
Out(kind, has_data, has_selfLink, crt) ==
    [kind |-> kind, has_data |-> has_data, has_selfLink |-> has_selfLink, crt |-> crt]
NoSecretOutputs ==
    {Out(k, FALSE, FALSE, Garbage) : k \in {"empty", "text", "badyaml"}}
    \cup {Out("map", FALSE, TRUE, Garbage), Out("map", TRUE, FALSE, Garbage),
          Out("map", FALSE, FALSE, Garbage)}
SecretOutputs == {Out("map", TRUE, TRUE, c) : c \in Payloads}
Outputs == IF Room THEN NoSecretOutputs \cup SecretOutputs ELSE NoSecretOutputs

\* yaml.load(output) followed by ds['data'][field] and ds['metadata']['selfLink']:
\* the exception raised, or "none"
secret_lookup(out) ==
    IF out.kind = "badyaml" THEN "YAMLError"
    ELSE IF out.kind \in {"empty", "text"} THEN "TypeError"
    ELSE IF ~out.has_data THEN "KeyError"
    ELSE IF ~out.has_selfLink THEN "KeyError"
    ELSE "none"

\* a handler list without the OSError clause
caught_TypeError_only(exc) == exc \in {"TypeError"}

\* the exceptions the router and registry checks catch
caught(exc) == exc \in {"TypeError", "OSError"}

\* one secret check: Popen, yaml.load, the lookups, and in the else branch the
\* examination; group is the group's name and next_pc the place after it
secret_check(secret, group, next_pc) ==
    LET skip == /\ pc' = next_pc
                /\ UNCHANGED <<error, host, reader, show_all, now, ocp_todo, cert_todo,
                               kube_todo, etcd_conf, etcd_certs_to_check, etcd_todo, lists, outcome>>
        cert_list == IF group = "router" THEN router_certs ELSE registry_certs
    IN  /\ cmds' = Append(cmds, secret)
        /\ oc' \in (IF oc = "untried" THEN {"absent", "present"} ELSE {oc})
        /\ IF oc' = "absent"
           THEN IF caught("OSError") THEN skip ELSE Raise("OSError")
           ELSE \E out \in Outputs :
                   IF secret_lookup(out) # "none"
                   THEN IF caught(secret_lookup(out)) THEN skip
                        ELSE Raise(secret_lookup(out))
                   ELSE IF ~load_and_handle_cert(out.crt, now, TRUE).ok
                   THEN Raise("CertError")
                   ELSE LET examined == examine(out.crt, <<"selfLink", secret>>,
                                                TRUE, cert_list)
                        IN  /\ pc' = next_pc
                            /\ router_certs' =
                                  (IF group = "router" THEN examined ELSE router_certs)
                            /\ registry_certs' =
                                  (IF group = "registry" THEN examined ELSE registry_certs)
                            /\ UNCHANGED <<error, host, reader, show_all, now, ocp_todo,
                                           cert_todo, kube_todo, etcd_conf, etcd_certs_to_check,
                                           etcd_todo, ocp_certs, kubeconfigs, etcd_certs,
                                           outcome>>

Router ==
    /\ pc = "router"
    /\ secret_check("router-certs", "router", "registry")

Registry ==
    /\ pc = "registry"
    /\ secret_check("registry-certificates", "registry", "report")

\* Report with the summary tabulated from the lists it returns
Report_summary_of_returned ==
    /\ pc = "report"
    /\ \E all \in BOOLEAN :
          LET out == results(all)
              res == tabulate_summary(out.ocp_certs, out.kubeconfigs, out.etcd,
                                      out.router, out.registry)
          IN  /\ show_all' = all
              /\ summary' = res
              /\ msg' = Message(res.total, res.expired, res.warning, res.ok, warning_days)
              /\ check_results' = out
    /\ pc' = "done"
    /\ UNCHANGED <<error, host, reader, oc, now, ocp_todo, cert_todo, kube_todo,
                   etcd_conf, etcd_certs_to_check, etcd_todo, lists, cmds>>

\* tabulate_summary, the message, then the filter under the show_all the
\* caller gave, the sort and exit_json
Report ==
    /\ pc = "report"
    /\ LET res == tabulate_summary(ocp_certs, kubeconfigs, etcd_certs,
                                   router_certs, registry_certs)
       IN  /\ summary' = res
           /\ msg' = Message(res.total, res.expired, res.warning, res.ok, warning_days)
    /\ \E all \in BOOLEAN :
          /\ show_all' = all
          /\ check_results' = results(all)
    /\ pc' = "done"
    /\ UNCHANGED <<error, host, reader, oc, now, ocp_todo, cert_todo, kube_todo,
                   etcd_conf, etcd_certs_to_check, etcd_todo, lists, cmds>>

Next ==
    \/ Start
    \/ OcpOpenConfig
    \/ OcpReadCert
    \/ OcpDone
    \/ NodeKube
    \/ KubeStep
    \/ KubeDone
    \/ EtcdConf
    \/ EtcdCert
    \/ EtcdCertsDone
    \/ EtcdEmbedded
    \/ Router
    \/ Registry
    \/ Report

Spec == Init /\ [][Next]_vars

(***************************************************************************)
(* FakeSecHead: the wrapper main puts around the open etcd.conf before     *)
(* handing it to the config parser.  ReaderSpec is one wrapper, from its   *)
(* construction on, under any sequence of readline calls.                  *)
(***************************************************************************)
\* the truth value Python gives a string or None
truthy(v) == v # None /\ v # ""

\* self.fp.readline(): the next line of the wrapped file, '' at its end
fp_readline(f) ==
    IF f.pos < Len(f.lines)
    THEN [line |-> f.lines[f.pos + 1], fp |-> [f EXCEPT !.pos = f.pos + 1]]
    ELSE [line |-> "", fp |-> f]

\* FakeSecHead(fp) around a file of which nothing has been read
ReaderInit ==
    /\ pc = "etcd_conf"
    /\ error = NoError
    /\ warning_days = 0
    /\ check_mode = FALSE
    /\ master_exists = FALSE
    /\ node_exists = FALSE
    /\ show_all = FALSE
    /\ oc = "untried"
    /\ now = 0
    /\ ocp_todo = <<>>
    /\ cert_todo = <<>>
    /\ kube_todo = Len(kubeconfig_paths) + 1
    /\ etcd_conf = Unseen
    /\ etcd_certs_to_check = {}
    /\ etcd_todo = {}
    /\ ocp_certs = <<>>
    /\ kubeconfigs = <<>>
    /\ etcd_certs = <<>>
    /\ router_certs = <<>>
    /\ registry_certs = <<>>
    /\ cmds = <<>>
    /\ check_results = <<>>
    /\ summary = <<>>
    /\ msg = <<>>
    /\ \E lines \in Files : fp = [lines |-> lines, pos |-> 0]
    /\ sechead = "[ETCD]\n"
    /\ returned = <<>>

\* readline without the finally clause that clears the header
readline_header_kept ==
    /\ Len(returned) < MaxReads
    /\ IF truthy(sechead)
       THEN /\ returned' = Append(returned, sechead)
            /\ UNCHANGED <<sechead, fp>>
       ELSE /\ returned' = Append(returned, fp_readline(fp).line)
            /\ fp' = fp_readline(fp).fp
            /\ UNCHANGED sechead
    /\ UNCHANGED <<pc, error, host, show_all, oc, now, ocp_todo, cert_todo, kube_todo,
                   etcd_conf, etcd_certs_to_check, etcd_todo, lists, cmds, outcome>>

\* FakeSecHead.readline: the header while it is set, cleared as the call
\* returns; the wrapped file's readline afterwards
readline ==
    /\ Len(returned) < MaxReads
    /\ IF truthy(sechead)
       THEN /\ returned' = Append(returned, sechead)
            /\ sechead' = None
            /\ UNCHANGED fp
       ELSE /\ returned' = Append(returned, fp_readline(fp).line)
            /\ fp' = fp_readline(fp).fp
            /\ UNCHANGED sechead
    /\ UNCHANGED <<pc, error, host, show_all, oc, now, ocp_todo, cert_todo, kube_todo,
                   etcd_conf, etcd_certs_to_check, etcd_todo, lists, cmds, outcome>>

ReaderNext == readline

ReaderSpec == ReaderInit /\ [][ReaderNext]_vars

(***************************************************************************)
(* EtcdSpec: the external etcd section of main on a host whose etcd.conf   *)
(* is fixed for the run.  It starts where main stands when it reaches the  *)
(* section on a host without platform config files and kubeconfigs.        *)
(***************************************************************************)
EtcdInit ==
    /\ pc = "etcd_conf"
    /\ error = NoError
    /\ warning_days \in WarningDays
    /\ check_mode = FALSE
    /\ master_exists = FALSE
    /\ node_exists = FALSE
    /\ show_all = FALSE
    /\ oc = "untried"
    /\ now \in Nows
    /\ ocp_todo = <<>>
    /\ cert_todo = <<>>
    /\ kube_todo = Len(kubeconfig_paths) + 1
    /\ etcd_conf \in EtcdConfFiles
    /\ etcd_certs_to_check = {}
    /\ etcd_todo = {}
    /\ ocp_certs = <<>>
    /\ kubeconfigs = <<>>
    /\ etcd_certs = <<>>
    /\ router_certs = <<>>
    /\ registry_certs = <<>>
    /\ cmds = <<>>
    /\ check_results = <<>>
    /\ summary = <<>>
    /\ msg = <<>>
    /\ fp = [lines |-> <<>>, pos |-> 0]
    /\ sechead = None
    /\ returned = <<>>

EtcdNext ==
    \/ EtcdConf
    \/ EtcdCert
    \/ EtcdCertsDone

EtcdSpec == EtcdInit /\ [][EtcdNext]_vars

TypeOK ==
    /\ pc \in {"start", "ocp", "node_kube", "kube", "etcd_conf", "etcd_files",
               "etcd_embedded", "router", "registry", "report", "done", "failed"}
    /\ error.exc \in {"none", "IOError", "CertError", "KeyError", "YAMLError", "OSError"}
    /\ (pc = "failed") <=> (error # NoError)

(***************************************************************************)
(* The properties.                                                         *)
(***************************************************************************)
\* every record the run has classified so far
Records ==
    LET items == ocp_certs \o kubeconfigs \o etcd_certs \o router_certs \o registry_certs
    IN  {items[i] : i \in 1..Len(items)}

\* the instant a classified record's expiry string displays
ExpiryOf(r) == r.expiry[2]

\* C1: a certificate whose expiry is before now is classified expired,
\* whatever the warning window; it is never warning or ok.
C1_ExpiredBeforeWarning ==
    \A r \in Records : ExpiryOf(r) < now => r.health = "expired"

\* an expired certificate that also satisfies the warning test has been classified
C1_Witness ==
    \E r \in Records :
        /\ ExpiryOf(r) < now
        /\ ExpiryOf(r) - now < expire_window
        /\ r.health = "expired"

\* C2: a certificate whose expiry is not before now is warning exactly when
\* expiry - now is strictly less than the warning window, and ok otherwise;
\* at expiry - now = window it is ok, at expiry = now it is warning for a
\* positive window and ok for a window of 0.
C2_WarningIffInsideWindow ==
    \A r \in Records :
        ExpiryOf(r) >= now =>
            /\ r.health = "warning" <=> ExpiryOf(r) - now < expire_window
            /\ r.health = "ok" <=> ~(ExpiryOf(r) - now < expire_window)
            /\ ExpiryOf(r) - now = expire_window => r.health = "ok"
            /\ ExpiryOf(r) = now /\ warning_days > 0 => r.health = "warning"
            /\ ExpiryOf(r) = now /\ warning_days = 0 => r.health = "ok"

\* a certificate exactly one positive window away from expiry has been classified
C2_Witness ==
    \E r \in Records :
        /\ warning_days > 0
        /\ ExpiryOf(r) - now = expire_window
        /\ r.health = "ok"

\* the list main accumulated for a group of the result
Group(g) ==
    CASE g = "ocp_certs" -> ocp_certs
      [] g = "kubeconfigs" -> kubeconfigs
      [] g = "etcd" -> etcd_certs
      [] g = "router" -> router_certs
      [] g = "registry" -> registry_certs

Range(seq) == {seq[i] : i \in 1..Len(seq)}
Count(seq, x) == Cardinality({i \in 1..Len(seq) : seq[i] = x})

\* the run went through the whole of main and returned its result
Completed == pc = "done" /\ ~check_mode

\* C3: with show_all false, each returned group holds exactly the group's
\* expired and warning records (none that is ok, none of them missing) and
\* is contained in what show_all true returns for the same lists.
C3_FilteredIsExactlyFlagged ==
    Completed /\ ~show_all =>
        \A g \in GroupNames :
            /\ \A x \in Range(check_results[g]) : x.health \in {"expired", "warning"}
            /\ \A x \in Range(Group(g)) \cup Range(check_results[g]) :
                  /\ Count(check_results[g], x) =
                        (IF x.health \in {"expired", "warning"}
                         THEN Count(Group(g), x) ELSE 0)
                  /\ Count(check_results[g], x) <= Count(results(TRUE)[g], x)

\* a filtered run returned a group that had both a flagged and an ok record
C3_Witness ==
    /\ Completed /\ ~show_all
    /\ \E g \in GroupNames :
          /\ \E x \in Range(Group(g)) : x.health = "ok"
          /\ \E x \in Range(Group(g)) : x.health = "warning"
          /\ Len(check_results[g]) = 1

\* C4: in the summary of a completed run ok + warning + expired = total and
\* total is the sum of the five group sizes; every record carries one of the
\* three healths.
C4_SummaryAddsUp ==
    /\ \A r \in Records : r.health \in {"ok", "warning", "expired"}
    /\ Completed =>
          /\ summary.ok + summary.warning + summary.expired = summary.total
          /\ summary.total = summary.system_certificates
                             + summary.kubeconfig_certificates
                             + summary.etcd_certificates
                             + summary.router_certs + summary.registry_certs
          /\ summary.system_certificates = Len(ocp_certs)
          /\ summary.kubeconfig_certificates = Len(kubeconfigs)
          /\ summary.etcd_certificates = Len(etcd_certs)
          /\ summary.router_certs = Len(router_certs)
          /\ summary.registry_certs = Len(registry_certs)

\* a completed run counted a router or registry record beside records of other healths
C4_Witness ==
    /\ Completed
    /\ summary.router_certs + summary.registry_certs >= 1
    /\ summary.total >= 2
    /\ summary.expired >= 1
    /\ summary.ok + summary.warning >= 1

\* the number of records of one health in a list, in the unfiltered lists
\* and in the returned lists
NumIn(seq, h) == Cardinality({i \in 1..Len(seq) : seq[i].health = h})
Unfiltered(h) ==
    NumIn(ocp_certs, h) + NumIn(kubeconfigs, h) + NumIn(etcd_certs, h)
    + NumIn(router_certs, h) + NumIn(registry_certs, h)
Returned(h) ==
    NumIn(check_results.ocp_certs, h) + NumIn(check_results.kubeconfigs, h)
    + NumIn(check_results.etcd, h) + NumIn(check_results.router, h)
    + NumIn(check_results.registry, h)

\* C5: the summary and the message count the unfiltered lists, whatever
\* show_all is: the counts are those of the lists main accumulated, so a
\* filtered run still counts the ok records it does not return.
C5_SummaryOfUnfiltered ==
    Completed =>
        /\ summary.total = NCerts
        /\ summary.ok = Unfiltered("ok")
        /\ summary.warning = Unfiltered("warning")
        /\ summary.expired = Unfiltered("expired")
        /\ \A g \in GroupNames :
              LET size == CASE g = "ocp_certs" -> summary.system_certificates
                            [] g = "kubeconfigs" -> summary.kubeconfig_certificates
                            [] g = "etcd" -> summary.etcd_certificates
                            [] g = "router" -> summary.router_certs
                            [] g = "registry" -> summary.registry_certs
              IN  size = Len(Group(g))
        /\ msg = [count |-> summary.total, exp |-> summary.expired,
                  warn |-> summary.warning, ok |-> summary.ok,
                  window |-> warning_days]
        /\ ~show_all => Returned("ok") = 0

\* a filtered run counted ok records that it did not return
C5_Witness ==
    /\ Completed /\ ~show_all
    /\ summary.ok >= 1
    /\ Returned("ok") = 0
    /\ summary.total > Returned("expired") + Returned("warning")

\* the groups main sorts, and what main hands to the sort or returns as it is
SortedGroups == {"ocp_certs", "kubeconfigs", "etcd"}
Picked(g) ==
    IF show_all THEN Group(g)
    ELSE SelectSeq(Group(g), LAMBDA c : c.health \in {"expired", "warning"})
Pos(seq, x) == CHOOSE i \in 1..Len(seq) : seq[i] = x

\* C6: the returned ocp_certs, kubeconfigs and etcd groups are in ascending
\* order of days_remaining, records of equal days_remaining keep their
\* discovery order, and sorting the returned list again changes nothing;
\* router and registry are returned in discovery order.
C6_SortedStableIdempotent ==
    Completed =>
        /\ \A g \in SortedGroups :
              LET r == check_results[g]
                  src == Picked(g)
              IN  /\ Len(r) = Len(src)
                  /\ \A x \in Range(src) \cup Range(r) : Count(r, x) = Count(src, x)
                  /\ \A i, j \in 1..Len(r) :
                        i < j =>
                           /\ r[i].days_remaining <= r[j].days_remaining
                           /\ r[i].days_remaining = r[j].days_remaining
                                 => Pos(src, r[i]) < Pos(src, r[j])
                  /\ sorted(r) = r
        /\ \A g \in GroupNames \ SortedGroups : check_results[g] = Picked(g)

\* a completed run sorted a group that was discovered out of order and held
\* two records of equal days_remaining
C6_Witness ==
    /\ Completed
    /\ \E g \in SortedGroups :
          \E i, j, k \in 1..Len(Picked(g)) :
             /\ i < j /\ j < k
             /\ Picked(g)[i].days_remaining > Picked(g)[j].days_remaining
             /\ Picked(g)[i].days_remaining = Picked(g)[k].days_remaining
             /\ check_results[g] # Picked(g)

\* C7: a servingInfo.certFile or clientCA path that does not exist is dropped
\* without an error and the run completes.
C7_MissingCertPathIsDropped ==
    ~(pc = "failed" /\ error.at = "ocp" /\ error.exc = "IOError")

\* C8: a certificate payload that fails to decode is omitted and the run
\* goes on to the remaining certificates and groups.
C8_DecodeFailureIsIsolated ==
    ~(pc = "failed" /\ error.exc = "CertError")

\* C9: when the router command cannot be started, the router group is empty,
\* the lists examined before are left as they were, the registry command is
\* still tried, and the run completes.
C9_RouterCommandAbsent ==
    /\ [](oc = "absent" =>
            /\ router_certs = <<>>
            /\ error = NoError
            /\ pc \in {"registry", "report", "done"}
            /\ cmds[1] = "router-certs"
            /\ pc \in {"report", "done"} => cmds = <<"router-certs", "registry-certificates">>
            /\ pc = "done" =>
                  /\ summary.router_certs = 0
                  /\ summary.total = Len(ocp_certs) + Len(kubeconfigs) + Len(etcd_certs)
                  /\ check_results.router = <<>>)
    /\ [][oc' = "absent" => UNCHANGED lists]_vars
    /\ [][pc = "router" /\ oc' = "absent" => pc' = "registry"]_vars

\* a run on a host without the oc command completed with records of other groups
C9_Witness ==
    /\ Completed
    /\ oc = "absent"
    /\ router_certs = <<>>
    /\ cmds = <<"router-certs", "registry-certificates">>
    /\ summary.total >= 1

\* C10: when the router or registry command prints something that is not
\* the expected secret, the check is not applicable: the group stays empty
\* and the run does not fail.
C10_UnexpectedOutputIsSkipped ==
    ~(pc = "failed" /\ error.at \in {"router", "registry"}
                    /\ error.exc \in {"KeyError", "YAMLError"})

\* C11: a run started with a negative warning_days ends as a run failure
\* before any source is inspected: it never leaves the start of main except
\* by failing there, no config file is opened, no external command is started
\* and no certificate is classified under the negative window.
C11_NegativeWarningDaysRejected ==
    warning_days < 0 =>
        /\ pc \in {"start", "failed"}
        /\ error.at \in {"none", "start"}
        /\ ocp_todo = <<>> /\ cert_todo = <<>>
        /\ cmds = <<>>
        /\ Records = {}

\* the i-th line the wrapped file's readline gives, '' past its end
FileLine(i) == IF i <= Len(fp.lines) THEN fp.lines[i] ELSE ""

\* C12: over any sequence of readline calls on one wrapper, the first call
\* returns the header line '[ETCD]\n' and reads nothing from the wrapped
\* file, and the call after it that is the i-th returns what the file's i-th
\* readline returns: the header comes once, and no line of the file is
\* skipped, duplicated or reordered.
C12_HeaderOnceThenFile ==
    /\ returned # <<>> => returned[1] = "[ETCD]\n"
    /\ Len(returned) <= 1 => fp.pos = 0
    /\ \A i \in 2..Len(returned) : returned[i] = FileLine(i - 1)
    /\ Len(returned) >= 1 =>
          fp.pos = (IF Len(returned) - 1 <= Len(fp.lines)
                    THEN Len(returned) - 1 ELSE Len(fp.lines))
    /\ truthy(sechead) <=> returned = <<>>

\* a wrapper around a file of differing lines has been read to the end of
\* the file and once more
C12_Witness ==
    /\ Len(fp.lines) >= 2
    /\ fp.lines[1] # fp.lines[2]
    /\ Len(returned) = Len(fp.lines) + 2
    /\ returned[Len(returned)] = ""

\* the paths the keys present in the host's etcd.conf name
Named ==
    IF etcd_conf.exists
    THEN {etcd_conf.conf[k] : k \in {q \in DOMAIN etcd_conf.conf : etcd_conf.conf[q] # absent}}
    ELSE {}

Rank(h) == CASE h = "expired" -> 1 [] h = "warning" -> 2 [] h = "ok" -> 3

\* C14: in a run with warning_days >= 0 every record is expired exactly when
\* its days_remaining is negative, a warning record has
\* 0 <= days_remaining < warning_days and an ok record has
\* days_remaining >= warning_days; in each returned sorted group the expired
\* records come before the warning records, which come before the ok records.
C14_HealthAgreesWithDays ==
    warning_days >= 0 =>
        /\ \A r \in Records :
              /\ r.health = "expired" <=> r.days_remaining < 0
              /\ r.health = "warning" =>
                    0 <= r.days_remaining /\ r.days_remaining < warning_days
              /\ r.health = "ok" => r.days_remaining >= warning_days
        /\ Completed =>
              \A g \in SortedGroups :
                 \A i, j \in 1..Len(check_results[g]) :
                    i < j => Rank(check_results[g][i].health)
                                <= Rank(check_results[g][j].health)

\* a completed run returned a sorted group holding a record that expired
\* less than a day ago, a warning record and an ok record, discovered with
\* an ok record first
C14_Witness ==
    /\ Completed
    /\ warning_days > 0
    /\ \E g \in SortedGroups :
          /\ Len(Group(g)) >= 3
          /\ Group(g)[1].health = "ok"
          /\ \E r \in Range(check_results[g]) :
                r.health = "expired" /\ ExpiryOf(r) - now = -1
          /\ \E r \in Range(check_results[g]) : r.health = "warning"
          /\ \E r \in Range(check_results[g]) : r.health = "ok"

\* C15: a run in check mode ends at the check-mode exit: it opens no config
\* file, kubeconfig or etcd file and starts no external command, classifies
\* nothing, returns an empty ocp_certs list and a message of 0 certificates
\* with 0/0/0 expired/warning/ok, whatever the host carries.
C15_CheckModeExitsFirst ==
    check_mode =>
        /\ pc \in {"start", "done"}
        /\ error = NoError
        /\ ocp_todo = <<>> /\ cert_todo = <<>>
        /\ kube_todo = 1
        /\ etcd_certs_to_check = {} /\ etcd_todo = {}
        /\ Records = {}
        /\ cmds = <<>> /\ oc = "untried"
        /\ pc = "done" =>
              /\ check_results = [ocp_certs |-> <<>>]
              /\ msg = Message(0, 0, 0, 0, warning_days)

\* a check-mode run has ended on a host that has both platform config files
C15_Witness ==
    /\ check_mode
    /\ pc = "done"
    /\ master_exists /\ node_exists
    /\ check_results.ocp_certs = <<>>
    /\ msg.count = 0

=============================================================================
